---- MODULE Spec2Model ----
(***************************************************************************)
(* Rating aggregation and review interaction of the book-review backend.   *)
(*                                                                         *)
(* The document store is modelled by three collections: reviews (rows in   *)
(* insertion order, a row's id is its index), books and users.  Ratings    *)
(* and averages are kept in tenths (rating 4 is 40, average 3.5 is 35) so  *)
(* that one-decimal values stay integers.                                  *)
(*                                                                         *)
(* Document.save() is modelled as the ODM performs it: only the paths that *)
(* were modified on the in-memory document are sent, a scalar as a $set of *)
(* the in-memory value, an array push as a $push, an array splice as a     *)
(* $set of the whole array guarded by the document version (__v).          *)
(*                                                                         *)
(* slice is the state of the front end's reviews slice.                     *)
(*                                                                         *)
(* res records the last request served one at a time together with its     *)
(* response; reqs holds the requests of the interleaved specifications,    *)
(* which take one step per await of the handler.                           *)
(***************************************************************************)
EXTENDS Integers, Sequences, FiniteSets, TLC

VARIABLES reviews, books, users, res, reqs, ops, slice

vars == <<reviews, books, users, res, reqs, ops, slice>>

(* ------------------------------ bounds -------------------------------- *)
MaxUsers == 2
MaxBooks == 1
MaxOps == 3
MaxToggles == 4
MaxReqs == 3
MaxCreates == 2
MaxFaultOps == 2
MaxInFlight == 2
MaxRated == 4
MaxThunks == 2

Users == 1..MaxUsers
BookIds == 1..MaxBooks

(* ------------------------ documents and schemas ----------------------- *)
\* seed.js creates one administrator; every other account has role 'user'.
Role(u) == IF u = 1 THEN "admin" ELSE "user"

MinRating == 10
MaxRating == 50
MinAverage == 0
MaxAverage == 50

\* new Book(...) with the schema defaults for the derived fields
NewBook == [averageRating |-> 0, totalRatings |-> 0, isActive |-> TRUE]

\* new Review({user, book, rating, title, ...}) with the schema defaults
NewReview(u, b, r, t) ==
    [user |-> u, book |-> b, rating |-> r, title |-> t, isActive |-> TRUE,
     helpful |-> [count |-> 0, users |-> <<>>],
     likes |-> [count |-> 0, users |-> <<>>],
     v |-> 0]

\* the paths of a review that PUT /api/reviews/:id copies from the body
allowedFields == {"rating", "title", "content", "spoilerAlert", "readingStatus",
                  "format", "price", "currency", "readDate"}

(* ----------------------------- aggregator ----------------------------- *)
\* { $match: { book: this._id } }: the ids of the rows the pipeline selects
Matched(rv, b) == {i \in DOMAIN rv : rv[i].book = b}

RECURSIVE SumRatings(_, _)
SumRatings(rv, S) ==
    IF S = {} THEN 0
    ELSE LET i == CHOOSE x \in S : TRUE
         IN rv[i].rating + SumRatings(rv, S \ {i})

\* mutant of Round1: an exact half is rounded down
Round1_HalfDown(s, n) == (2 * s + n - 1) \div (2 * n)

\* Math.round(avg * 10) for avg = (s / 10) / n, s the sum of ratings in tenths
Round1(s, n) == (2 * s + n) \div (2 * n)

\* the in-memory book document after updateAverageRating assigned its fields
updateAverageRating(rv, doc, b) ==
    LET m == Matched(rv, b)
    IN IF m # {}
       THEN [doc EXCEPT !.averageRating = Round1(SumRatings(rv, m), Cardinality(m)),
                        !.totalRatings = Cardinality(m)]
       ELSE [doc EXCEPT !.averageRating = 0, !.totalRatings = 0]

\* schema validators of Book run by save(): averageRating min 0, max 5
ValidBook(doc) == doc.averageRating >= MinAverage /\ doc.averageRating <= MaxAverage

\* schema validators of Review run by save(): rating min 1, max 5
ValidReview(doc) == doc.rating >= MinRating /\ doc.rating <= MaxRating

\* book.save(): $set of the paths whose in-memory value differs from the
\* value the document was loaded with
SaveBook(bk, b, doc, loaded) ==
    [bk EXCEPT ![b] = [f \in DOMAIN bk[b] |->
                          IF doc[f] # loaded[f] THEN doc[f] ELSE bk[b][f]]]

\* Book.findById(id) followed by book.updateAverageRating() on a fresh copy
Recompute(rv, bk, b) ==
    IF b \in DOMAIN bk
    THEN SaveBook(bk, b, updateAverageRating(rv, bk[b], b), bk[b])
    ELSE bk

\* reviewSchema.pre('save'): recompute before the row itself is written
PreSave(rv, bk, doc, isNew, ratingModified) ==
    IF isNew \/ ratingModified THEN Recompute(rv, bk, doc.book) ELSE bk

\* the unique index { user: 1, book: 1 } of the reviews collection
UniqueIndexAllows(rv, doc) ==
    \A i \in DOMAIN rv : ~(rv[i].user = doc.user /\ rv[i].book = doc.book)

\* mutant of FindOne: the existence check only looks at active reviews
FindOne_ActiveOnly(rv, u, b) ==
    {i \in DOMAIN rv : rv[i].user = u /\ rv[i].book = b /\ rv[i].isActive}

\* Review.findOne({ user, book }): the ids of the rows of the pair
FindOne(rv, u, b) == {i \in DOMAIN rv : rv[i].user = u /\ rv[i].book = b}

\* mutant of IncReviewsCount: a decrement is dropped
IncReviewsCount_NoDecrement(us, u, d) ==
    IF u \in DOMAIN us /\ d > 0
    THEN [us EXCEPT ![u].reviewsCount = us[u].reviewsCount + d]
    ELSE us

\* User.findByIdAndUpdate(id, { $inc: { reviewsCount: d } })
IncReviewsCount(us, u, d) ==
    IF u \in DOMAIN us
    THEN [us EXCEPT ![u].reviewsCount = us[u].reviewsCount + d]
    ELSE us

\* a request without a body
NoBody == [f \in {} |-> 0]

\* the voter data of a request that is not a toggle
NoVotes == [count |-> -1, users |-> <<>>]

\* res.status(code).json({ message, ... }): the last request served and its
\* response; msg is the error kind of the message, count and flag the toggle
\* routes' payload.  pre is the stored voter data the toggle found, pre2 the
\* voter data its predecessor found when that was the same toggle by the same
\* user on the same review and succeeded, body the request body, fault the
\* site of the book.save() the store refused while the request was served.
Response(op, by, b, r, status, msg) ==
    [op |-> op, by |-> by, book |-> b, review |-> r, status |-> status,
     msg |-> msg, count |-> 0, flag |-> FALSE, pre |-> NoVotes, pre2 |-> NoVotes,
     body |-> NoBody, fault |-> "none"]

(* ------------------------------- inputs ------------------------------- *)
\* rating values a client may send; 60 stands for any out-of-range value
RatingInputs == {20, 50, 60}
TitleInputs == {"t1"}
\* bodies of PUT /api/reviews/:id: an in-range rating, an out-of-range one, the
\* non-integer 4.5, and a title together with a path outside allowedFields
ReviewBodies ==
    {[rating |-> 50], [rating |-> 60], [rating |-> 45],
     [title |-> "t2", isActive |-> FALSE]}

\* initialState of the reviews slice; reviews holds the ids of the listed
\* reviews, currentReview the id of the shown one, 0 and "" stand for null
initialState ==
    [reviews |-> <<>>, currentReview |-> 0, isLoading |-> FALSE, error |-> ""]

(* ------------------------------- Init --------------------------------- *)
Init ==
    /\ slice = initialState
    /\ reviews = <<>>
    /\ \E n \in 0..MaxBooks : books = [b \in 1..n |-> NewBook]
    /\ users = [u \in Users |-> [reviewsCount |-> 0]]
    /\ res = Response("none", 0, 0, 0, 0, "")
    /\ reqs = <<>>
    /\ ops = 0

(* ---------------------- review lifecycle handlers --------------------- *)
\* mutant of BookMissing: a soft-deleted book is treated as present
BookMissing_IgnoresActive(bk, b) == b \notin DOMAIN bk

\* Book.findById(bookId) and the check '!book || !book.isActive'
BookMissing(bk, b) == b \notin DOMAIN bk \/ ~bk[b].isActive

\* mutant of ReviewMissing: a soft-deleted review is treated as present
ReviewMissing_IgnoresActive(rv, i) == i \notin DOMAIN rv

\* Review.findById(id) and the check '!review || !review.isActive'
ReviewMissing(rv, i) == i \notin DOMAIN rv \/ ~rv[i].isActive

\* validateReviewCreation: body('rating').isInt({ min: 1, max: 5 })
validateReviewCreation(r) == r \in {10, 20, 30, 40, 50}

\* mutant of Propagates: the route logs a failed save and carries on
Propagates_None(site) == FALSE

\* an error raised by book.save() at site "hook" is caught and logged by the
\* pre-save hook; one raised at site "route" reaches the route's catch block
Propagates(site) == site = "route"

\* the store refuses the book.save() of updateAverageRating at the site named
\* by fault; a save without modified paths sends nothing and cannot fail
SaveFails(fault, site, bk, saved) == fault = site /\ saved # bk

\* POST /api/reviews by requester u for book b; fault names the book.save()
\* the store refuses, if any
CreateReviewF(u, b, r, t, fault) ==
    LET Reply(i, status, msg, site) ==
            [Response("createReview", u, b, i, status, msg)
                EXCEPT !.body = [rating |-> r, title |-> t], !.fault = site]
    IN
    /\ UNCHANGED slice
    /\ ops < MaxOps
    /\ ops' = ops + 1
    /\ UNCHANGED reqs
    /\ IF ~validateReviewCreation(r)
       THEN /\ res' = Reply(0, 400, "ValidationFailed", "none")
            /\ UNCHANGED <<reviews, books, users>>
       ELSE IF BookMissing(books, b)
       THEN /\ res' = Reply(0, 404, "BookNotFound", "none")
            /\ UNCHANGED <<reviews, books, users>>
       ELSE IF FindOne(reviews, u, b) # {}
       THEN /\ res' = Reply(0, 400, "DuplicateReview", "none")
            /\ UNCHANGED <<reviews, books, users>>
       ELSE LET book == books[b]
                review == NewReview(u, b, r, t)
                hooked == PreSave(reviews, books, review, TRUE, FALSE)
                hookFailed == SaveFails(fault, "hook", books, hooked)
                bk1 == IF hookFailed THEN books ELSE hooked
            IN IF hookFailed /\ Propagates("hook")
               THEN /\ res' = Reply(0, 500, "ServerError", "hook")
                    /\ UNCHANGED <<reviews, books, users>>
               ELSE IF ~UniqueIndexAllows(reviews, review)
               THEN /\ books' = bk1
                    /\ res' = Reply(0, 500, "ServerError", IF hookFailed THEN "hook" ELSE "none")
                    /\ UNCHANGED <<reviews, users>>
               ELSE LET rv1 == Append(reviews, review)
                        bk2 == SaveBook(bk1, b, updateAverageRating(rv1, book, b), book)
                        failed == SaveFails(fault, "route", bk1, bk2)
                    IN /\ reviews' = rv1
                       /\ IF failed /\ Propagates("route")
                          THEN /\ books' = bk1
                               /\ UNCHANGED users
                               /\ res' = Reply(Len(rv1), 500, "ServerError", "route")
                          ELSE /\ books' = IF failed THEN bk1 ELSE bk2
                               /\ users' = IncReviewsCount(users, u, 1)
                               /\ res' = Reply(Len(rv1), 201, "",
                                               IF failed THEN "route"
                                               ELSE IF hookFailed THEN "hook" ELSE "none")

CreateReview(u, b, r, t) == CreateReviewF(u, b, r, t, "none")

\* mutant of ApplyBody: allowed fields absent from the body fall back to
\* their defaults
ApplyBody_Replace(doc, body) ==
    [f \in DOMAIN doc |->
        IF f \in allowedFields
        THEN IF f \in DOMAIN body THEN body[f] ELSE NewReview(0, 0, 0, "")[f]
        ELSE doc[f]]

\* mutant of ApplyBody: every key of the body is copied onto the review
ApplyBody_Mass(doc, body) ==
    [f \in DOMAIN doc |-> IF f \in DOMAIN body THEN body[f] ELSE doc[f]]

\* the in-memory review after the allowedFields loop copied the body
ApplyBody(doc, body) ==
    [f \in DOMAIN doc |->
        IF f \in allowedFields /\ f \in DOMAIN body THEN body[f] ELSE doc[f]]

\* mutant of Owns: the administrator exemption is missing
Owns_AuthorOnly(u, review) == review.user = u

\* the ownership check shared by PUT and DELETE /api/reviews/:id
Owns(u, review) == review.user = u \/ Role(u) = "admin"

\* PUT /api/reviews/:id by requester u; fault names the book.save() the store
\* refuses, if any
UpdateReviewF(u, i, body, fault) ==
    LET Reply(b, status, msg, site) ==
            [Response("updateReview", u, b, i, status, msg)
                EXCEPT !.body = body, !.fault = site]
    IN
    /\ UNCHANGED slice
    /\ ops < MaxOps
    /\ ops' = ops + 1
    /\ UNCHANGED <<reqs, users>>
    /\ IF ReviewMissing(reviews, i)
       THEN /\ res' = Reply(0, 404, "NotFound", "none")
            /\ UNCHANGED <<reviews, books>>
       ELSE IF ~Owns(u, reviews[i])
       THEN /\ res' = Reply(reviews[i].book, 403, "Forbidden", "none")
            /\ UNCHANGED <<reviews, books>>
       ELSE LET review == ApplyBody(reviews[i], body)
            IN IF ~ValidReview(review)
               THEN /\ res' = Reply(review.book, 500, "ServerError", "none")
                    /\ UNCHANGED <<reviews, books>>
               ELSE LET hooked == PreSave(reviews, books, review, FALSE,
                                          review.rating # reviews[i].rating)
                        hookFailed == SaveFails(fault, "hook", books, hooked)
                        bk1 == IF hookFailed THEN books ELSE hooked
                        rv1 == [reviews EXCEPT ![i] = review]
                        bk2 == IF "rating" \in DOMAIN body
                               THEN Recompute(rv1, bk1, review.book)
                               ELSE bk1
                        failed == SaveFails(fault, "route", bk1, bk2)
                    IN IF hookFailed /\ Propagates("hook")
                       THEN /\ res' = Reply(review.book, 500, "ServerError", "hook")
                            /\ UNCHANGED <<reviews, books>>
                       ELSE /\ reviews' = rv1
                            /\ IF failed /\ Propagates("route")
                               THEN /\ books' = bk1
                                    /\ res' = Reply(review.book, 500, "ServerError", "route")
                               ELSE /\ books' = IF failed THEN bk1 ELSE bk2
                                    /\ res' = Reply(review.book, 200, "",
                                                    IF failed THEN "route"
                                                    ELSE IF hookFailed THEN "hook" ELSE "none")

UpdateReview(u, i, body) == UpdateReviewF(u, i, body, "none")

\* DELETE /api/reviews/:id by requester u; fault names the book.save() the
\* store refuses, if any
DeleteReviewF(u, i, fault) ==
    LET Reply(b, status, msg, site) ==
            [Response("deleteReview", u, b, i, status, msg) EXCEPT !.fault = site]
    IN
    /\ UNCHANGED slice
    /\ ops < MaxOps
    /\ ops' = ops + 1
    /\ UNCHANGED reqs
    /\ IF ReviewMissing(reviews, i)
       THEN /\ res' = Reply(0, 404, "NotFound", "none")
            /\ UNCHANGED <<reviews, books, users>>
       ELSE IF ~Owns(u, reviews[i])
       THEN /\ res' = Reply(reviews[i].book, 403, "Forbidden", "none")
            /\ UNCHANGED <<reviews, books, users>>
       ELSE LET review == [reviews[i] EXCEPT !.isActive = FALSE]
                bk1 == PreSave(reviews, books, review, FALSE, FALSE)
                rv1 == [reviews EXCEPT ![i] = review]
                bk2 == Recompute(rv1, bk1, review.book)
                failed == SaveFails(fault, "route", bk1, bk2)
            IN /\ reviews' = rv1
               /\ IF failed /\ Propagates("route")
                  THEN /\ books' = bk1
                       /\ UNCHANGED users
                       /\ res' = Reply(review.book, 500, "ServerError", "route")
                  ELSE /\ books' = IF failed THEN bk1 ELSE bk2
                       /\ users' = IncReviewsCount(users, review.user, -1)
                       /\ res' = Reply(review.book, 200, "", IF failed THEN "route" ELSE "none")

DeleteReview(u, i) == DeleteReviewF(u, i, "none")

(* ------------------------- interaction ledger ------------------------- *)
\* Array.prototype.indexOf, 1-based; 0 stands for the -1 of a missing element
IndexOf(seq, u) ==
    IF \E k \in DOMAIN seq : seq[k] = u
    THEN CHOOSE k \in DOMAIN seq : seq[k] = u /\ \A j \in 1..(k - 1) : seq[j] # u
    ELSE 0

\* mutant of Splice: the last entry is removed instead of the entry at idx
Splice_Pop(seq, idx) == SubSeq(seq, 1, Len(seq) - 1)

\* users.splice(idx, 1)
Splice(seq, idx) == SubSeq(seq, 1, idx - 1) \o SubSeq(seq, idx + 1, Len(seq))

\* mutant of Toggled: the removal branch forgets to decrement the count
Toggled_NoDecrement(doc, kind, u) ==
    LET userIndex == IndexOf(doc[kind].users, u)
    IN IF userIndex = 0
       THEN [doc EXCEPT ![kind].users = Append(@, u), ![kind].count = @ + 1]
       ELSE [doc EXCEPT ![kind].users = Splice(@, userIndex)]

\* the in-memory review after the body of markHelpful / toggleLike, before save();
\* kind is "helpful" for markHelpful and "likes" for toggleLike
Toggled(doc, kind, u) ==
    LET userIndex == IndexOf(doc[kind].users, u)
    IN IF userIndex = 0
       THEN [doc EXCEPT ![kind].users = Append(@, u), ![kind].count = @ + 1]
       ELSE [doc EXCEPT ![kind].users = Splice(@, userIndex), ![kind].count = @ - 1]

markHelpful(doc, u) == Toggled(doc, "helpful", u)

toggleLike(doc, u) == Toggled(doc, "likes", u)

\* mutant of IsSetByUser: isLikedByUser looks at the helpful list
IsSetByUser_Helpful(doc, kind, u) == \E k \in DOMAIN doc.helpful.users : doc.helpful.users[k] = u

\* isHelpfulByUser / isLikedByUser: users.includes(userId)
IsSetByUser(doc, kind, u) == \E k \in DOMAIN doc[kind].users : doc[kind].users[k] = u

\* TRUE when the in-memory change of the voter list was a push
Pushed(doc, loaded, kind) == Len(doc[kind].users) > Len(loaded[kind].users)

\* this.save() of a toggled review can be applied: a push is sent as $push
\* without a version condition, a splice as $set of the array under the
\* condition that the stored version is the loaded one (else VersionError)
ToggleSaveOk(rv, i, doc, loaded, kind) ==
    Pushed(doc, loaded, kind) \/ rv[i].v = loaded.v

\* mutant of SaveToggle: the toggled count and voter list are written to both
\* kinds
SaveToggle_Both(rv, i, doc, loaded, kind) ==
    [rv EXCEPT ![i].helpful = doc[kind], ![i].likes = doc[kind], ![i].v = @ + 1]

\* the stored rows after this.save() of a toggled review applied its update:
\* $push / $set of the voter list, $set of the count, $inc of the version
SaveToggle(rv, i, doc, loaded, kind) ==
    IF Pushed(doc, loaded, kind)
    THEN [rv EXCEPT ![i][kind].users = Append(@, doc[kind].users[Len(doc[kind].users)]),
                    ![i][kind].count = doc[kind].count,
                    ![i].v = @ + 1]
    ELSE [rv EXCEPT ![i][kind].users = doc[kind].users,
                    ![i][kind].count = doc[kind].count,
                    ![i].v = @ + 1]

ToggleOp(kind) == IF kind = "helpful" THEN "markHelpful" ELSE "toggleLike"

\* the request (op, u, i) follows a successful request of the same kind by the
\* same user on the same review
Repeats(last, op, u, i) ==
    last.op = op /\ last.by = u /\ last.review = i /\ last.status = 200

\* POST /api/reviews/:id/helpful and POST /api/reviews/:id/like by requester u
ToggleRoute(u, i, kind) ==
    /\ UNCHANGED slice
    /\ ops < MaxToggles
    /\ ops' = ops + 1
    /\ UNCHANGED <<reqs, users>>
    /\ IF ReviewMissing(reviews, i)
       THEN /\ res' = Response(ToggleOp(kind), u, 0, i, 404, "NotFound")
            /\ UNCHANGED <<reviews, books>>
       ELSE LET loaded == reviews[i]
                review == IF kind = "helpful" THEN markHelpful(loaded, u)
                                              ELSE toggleLike(loaded, u)
            IN IF ~ToggleSaveOk(reviews, i, review, loaded, kind)
               THEN /\ res' = Response(ToggleOp(kind), u, loaded.book, i, 500, "ServerError")
                    /\ UNCHANGED <<reviews, books>>
               ELSE /\ books' = PreSave(reviews, books, review, FALSE,
                                        review.rating # loaded.rating)
                    /\ reviews' = SaveToggle(reviews, i, review, loaded, kind)
                    /\ res' = [Response(ToggleOp(kind), u, loaded.book, i, 200, "")
                                 EXCEPT !.count = review[kind].count,
                                        !.flag = IsSetByUser(review, kind, u),
                                        !.pre = loaded[kind],
                                        !.pre2 = IF Repeats(res, ToggleOp(kind), u, i)
                                                 THEN res.pre ELSE NoVotes]

MarkHelpful(u, i) == ToggleRoute(u, i, "helpful")

ToggleLike(u, i) == ToggleRoute(u, i, "likes")

(* ---------------------------- book handlers --------------------------- *)
\* requireAdmin of the authentication middleware
requireAdmin(u) == Role(u) = "admin"

\* request bodies of the book routes; title stands for any catalog field
BookBodies ==
    {[title |-> "b"], [averageRating |-> 35, totalRatings |-> 7],
     [averageRating |-> 60], [isActive |-> TRUE]}

\* the in-memory book after Object.keys(req.body).forEach(key => book[key] = ...)
AssignBody(doc, body) ==
    [f \in DOMAIN doc |-> IF f \in DOMAIN body THEN body[f] ELSE doc[f]]

\* POST /api/books by requester u
CreateBook(u, body) ==
    /\ UNCHANGED slice
    /\ ops < MaxOps
    /\ Len(books) < MaxBooks
    /\ ops' = ops + 1
    /\ UNCHANGED <<reqs, users, reviews>>
    /\ IF ~requireAdmin(u)
       THEN /\ res' = Response("createBook", u, 0, 0, 403, "Forbidden")
            /\ UNCHANGED books
       ELSE LET book == AssignBody(NewBook, body)
            IN IF ~ValidBook(book)
               THEN /\ res' = Response("createBook", u, 0, 0, 500, "ServerError")
                    /\ UNCHANGED books
               ELSE /\ books' = Append(books, book)
                    /\ res' = Response("createBook", u, Len(books) + 1, 0, 201, "")

\* PUT /api/books/:id by requester u
UpdateBook(u, b, body) ==
    /\ UNCHANGED slice
    /\ ops < MaxOps
    /\ ops' = ops + 1
    /\ UNCHANGED <<reqs, users, reviews>>
    /\ IF ~requireAdmin(u)
       THEN /\ res' = Response("updateBook", u, b, 0, 403, "Forbidden")
            /\ UNCHANGED books
       ELSE IF b \notin DOMAIN books
       THEN /\ res' = Response("updateBook", u, b, 0, 404, "NotFound")
            /\ UNCHANGED books
       ELSE LET book == AssignBody(books[b], body)
            IN IF ~ValidBook(book)
               THEN /\ res' = Response("updateBook", u, b, 0, 500, "ServerError")
                    /\ UNCHANGED books
               ELSE /\ books' = SaveBook(books, b, book, books[b])
                    /\ res' = Response("updateBook", u, b, 0, 200, "")

\* mutant of DeleteBook: the delete cascades to the book's reviews and resets
\* its derived fields
DeleteBook_Cascade(u, b) ==
    /\ UNCHANGED slice
    /\ ops < MaxOps
    /\ ops' = ops + 1
    /\ UNCHANGED <<reqs, users>>
    /\ IF ~requireAdmin(u)
       THEN /\ res' = Response("deleteBook", u, b, 0, 403, "Forbidden")
            /\ UNCHANGED <<books, reviews>>
       ELSE IF b \notin DOMAIN books
       THEN /\ res' = Response("deleteBook", u, b, 0, 404, "NotFound")
            /\ UNCHANGED <<books, reviews>>
       ELSE /\ reviews' = [i \in DOMAIN reviews |->
                             IF reviews[i].book = b
                             THEN [reviews[i] EXCEPT !.isActive = FALSE]
                             ELSE reviews[i]]
            /\ books' = [books EXCEPT ![b].isActive = FALSE,
                                      ![b].averageRating = 0,
                                      ![b].totalRatings = 0]
            /\ res' = Response("deleteBook", u, b, 0, 200, "")

\* DELETE /api/books/:id by requester u
DeleteBook(u, b) ==
    /\ UNCHANGED slice
    /\ ops < MaxOps
    /\ ops' = ops + 1
    /\ UNCHANGED <<reqs, users, reviews>>
    /\ IF ~requireAdmin(u)
       THEN /\ res' = Response("deleteBook", u, b, 0, 403, "Forbidden")
            /\ UNCHANGED books
       ELSE IF b \notin DOMAIN books
       THEN /\ res' = Response("deleteBook", u, b, 0, 404, "NotFound")
            /\ UNCHANGED books
       ELSE LET book == [books[b] EXCEPT !.isActive = FALSE]
            IN /\ books' = SaveBook(books, b, book, books[b])
               /\ res' = Response("deleteBook", u, b, 0, 200, "")

(* ---------------------------- read endpoints -------------------------- *)
\* GET /api/reviews: the ids of the rows Review.find({ isActive: true }) yields
GetReviews(rv) == {i \in DOMAIN rv : rv[i].isActive}

\* GET /api/reviews/:id: the row returned, none when the answer is 404
GetReviewById(rv, i) == IF ReviewMissing(rv, i) THEN {} ELSE {i}

\* GET /api/reviews/user/:userId and GET /api/users/:id/reviews:
\* Review.find({ user, isActive: true })
GetUserReviews(rv, u) == {i \in DOMAIN rv : rv[i].user = u /\ rv[i].isActive}

\* GET /api/books/:id/reviews: Review.find({ book, isActive: true }) of an
\* active book
GetBookReviews(rv, bk, b) ==
    IF BookMissing(bk, b) THEN {}
    ELSE {i \in DOMAIN rv : rv[i].book = b /\ rv[i].isActive}

\* GET /api/books/:id, field recentReviews: Review.find({ book, isActive: true })
recentReviews(rv, bk, b) ==
    IF BookMissing(bk, b) THEN {}
    ELSE {i \in DOMAIN rv : rv[i].book = b /\ rv[i].isActive}

\* GET /api/books/:id, field userReview: Review.findOne({ user, book })
userReview(rv, bk, u, b) ==
    IF BookMissing(bk, b) THEN {}
    ELSE {i \in DOMAIN rv : rv[i].user = u /\ rv[i].book = b}

(* --------------------------- specifications --------------------------- *)
\* ids a request may name: every stored document and one id that is missing
ReviewIds == 1..(Len(reviews) + 1)
RequestBookIds == 1..(Len(books) + 1)

\* one request at a time: review create / update / delete only
NextLifecycle ==
    \/ \E u \in Users, b \in RequestBookIds, r \in RatingInputs, t \in TitleInputs :
          CreateReview(u, b, r, t)
    \/ \E u \in Users, i \in ReviewIds, body \in ReviewBodies : UpdateReview(u, i, body)
    \/ \E u \in Users, i \in ReviewIds : DeleteReview(u, i)

SpecLifecycle == Init /\ [][NextLifecycle]_vars

\* the book.save() calls of a review request: in the pre-save hook, in the route
Sites == {"hook", "route"}

\* one request at a time: review create / update / delete, where the store may
\* refuse one book.save() of a request
NextFault ==
    \/ \E u \in Users, b \in RequestBookIds, r \in RatingInputs, t \in TitleInputs,
          fault \in Sites \cup {"none"} :
             ops < MaxFaultOps /\ CreateReviewF(u, b, r, t, fault)
    \/ \E u \in Users, i \in ReviewIds, body \in ReviewBodies,
          fault \in Sites \cup {"none"} :
             ops < MaxFaultOps /\ UpdateReviewF(u, i, body, fault)
    \/ \E u \in Users, i \in ReviewIds, fault \in Sites \cup {"none"} :
          ops < MaxFaultOps /\ DeleteReviewF(u, i, fault)

SpecFault == Init /\ [][NextFault]_vars

\* one request at a time: the review lifecycle and the catalog routes
Next ==
    \/ NextLifecycle
    \/ \E u \in Users, body \in BookBodies : CreateBook(u, body)
    \/ \E u \in Users, b \in RequestBookIds, body \in BookBodies : UpdateBook(u, b, body)
    \/ \E u \in Users, b \in RequestBookIds : DeleteBook(u, b)

Spec == Init /\ [][Next]_vars

\* a store in which every user has reviewed book 1, some reviews soft-deleted
InitToggle ==
    /\ slice = initialState
    /\ \E act \in [Users -> BOOLEAN] :
          /\ reviews = [u \in Users |->
                          [NewReview(u, 1, 40, "t1") EXCEPT !.isActive = act[u]]]
          /\ users = [u \in Users |-> [reviewsCount |-> IF act[u] THEN 1 ELSE 0]]
    /\ books = Recompute(reviews, [b \in BookIds |-> NewBook], 1)
    /\ res = Response("none", 0, 0, 0, 0, "")
    /\ reqs = <<>>
    /\ ops = 0

\* one request at a time: the two toggle routes
NextToggle ==
    \/ \E u \in Users, i \in ReviewIds : MarkHelpful(u, i)
    \/ \E u \in Users, i \in ReviewIds : ToggleLike(u, i)

SpecToggle == InitToggle /\ [][NextToggle]_vars

(* ------------------------ the aggregator alone ------------------------ *)
\* the ratings validateReviewCreation admits
IntegerRatings == {10, 20, 30, 40, 50}

\* a store in which up to MaxRated users have reviewed book 1 with integer
\* ratings and the book's derived fields have not been computed yet
InitRound ==
    /\ slice = initialState
    /\ \E n \in 1..MaxRated : \E rs \in [1..n -> IntegerRatings] :
          /\ reviews = [i \in 1..n |-> NewReview(i, 1, rs[i], "t1")]
          /\ users = [u \in 1..n |-> [reviewsCount |-> 1]]
    /\ books = [b \in BookIds |-> NewBook]
    /\ res = Response("none", 0, 0, 0, 0, "")
    /\ reqs = <<>>
    /\ ops = 0

\* book.updateAverageRating() on a freshly loaded book b
RecomputeRating(b) ==
    /\ UNCHANGED slice
    /\ ops < MaxOps
    /\ ops' = ops + 1
    /\ UNCHANGED <<reviews, users, reqs>>
    /\ books' = Recompute(reviews, books, b)
    /\ res' = Response("recomputeRating", 0, b, 0, 200, "")

NextRound == \E b \in DOMAIN books : RecomputeRating(b)

SpecRound == InitRound /\ [][NextRound]_vars

(* ----------------- interleaved requests: toggle routes ---------------- *)
\* a request in flight: its parameters, its position (pc), the documents it
\* holds in memory (doc / bdoc / hdoc) with the values they were loaded
\* with (loaded / bloaded / hloaded), and its response once pc = "done"
NewReq(op, u, b, i) ==
    [op |-> op, by |-> u, book |-> b, review |-> i, kind |-> "", pc |-> "start",
     doc |-> NewReview(0, 0, 0, ""), loaded |-> NewReview(0, 0, 0, ""),
     bdoc |-> NewBook, bloaded |-> NewBook, hdoc |-> NewBook, hloaded |-> NewBook,
     status |-> 0, msg |-> "", count |-> 0, flag |-> FALSE, body |-> NoBody]

\* the request has been answered; the documents it held are released
Done(req, status, msg) ==
    [req EXCEPT !.pc = "done", !.status = status, !.msg = msg,
                !.doc = NewReview(0, 0, 0, ""), !.loaded = NewReview(0, 0, 0, ""),
                !.bdoc = NewBook, !.bloaded = NewBook,
                !.hdoc = NewBook, !.hloaded = NewBook]

\* the toggle routes up to 'await this.save()': findById, the 404 check and
\* the in-memory toggle
TgFind(u, i, kind) ==
    /\ UNCHANGED slice
    /\ Len(reqs) < MaxReqs
    /\ UNCHANGED <<reviews, books, users, res, ops>>
    /\ LET req == [NewReq(ToggleOp(kind), u, 0, i) EXCEPT !.kind = kind]
       IN IF ReviewMissing(reviews, i)
          THEN reqs' = Append(reqs, Done(req, 404, "NotFound"))
          ELSE reqs' = Append(reqs,
                   [req EXCEPT !.pc = "save", !.book = reviews[i].book,
                               !.loaded = reviews[i],
                               !.doc = IF kind = "helpful"
                                       THEN markHelpful(reviews[i], u)
                                       ELSE toggleLike(reviews[i], u)])

\* the toggle routes from the store's execution of save() to the response
TgSave(k) ==
    /\ UNCHANGED slice
    /\ k \in DOMAIN reqs
    /\ reqs[k].pc = "save"
    /\ UNCHANGED <<books, users, res, ops>>
    /\ LET req == reqs[k]
       IN IF ~ToggleSaveOk(reviews, req.review, req.doc, req.loaded, req.kind)
          THEN /\ reqs' = [reqs EXCEPT ![k] = Done(req, 500, "ServerError")]
               /\ UNCHANGED reviews
          ELSE /\ reviews' = SaveToggle(reviews, req.review, req.doc, req.loaded, req.kind)
               /\ reqs' = [reqs EXCEPT ![k] =
                             [Done(req, 200, "") EXCEPT
                                 !.count = req.doc[req.kind].count,
                                 !.flag = IsSetByUser(req.doc, req.kind, req.by)]]

NextConcToggle ==
    \/ \E u \in Users, i \in ReviewIds, kind \in {"helpful", "likes"} : TgFind(u, i, kind)
    \/ \E k \in 1..MaxReqs : TgSave(k)

SpecConcToggle == InitToggle /\ [][NextConcToggle]_vars

(* ----------------- interleaved requests: POST /api/reviews ------------- *)
\* validation, then 'await Book.findById(bookId)' and the 404 check
CrStart(u, b, r, t) ==
    /\ UNCHANGED slice
    /\ Len(reqs) < MaxCreates
    /\ UNCHANGED <<reviews, books, users, res, ops>>
    /\ LET req == [NewReq("createReview", u, b, 0) EXCEPT !.doc = NewReview(u, b, r, t)]
       IN IF ~validateReviewCreation(r)
          THEN reqs' = Append(reqs, Done(req, 400, "ValidationFailed"))
          ELSE IF BookMissing(books, b)
          THEN reqs' = Append(reqs, Done(req, 404, "BookNotFound"))
          ELSE reqs' = Append(reqs, [req EXCEPT !.pc = "findOne",
                                                !.bdoc = books[b], !.bloaded = books[b]])

\* 'await Review.findOne({ user, book })' and the duplicate check
CrFindOne(k) ==
    /\ UNCHANGED slice
    /\ k \in DOMAIN reqs
    /\ reqs[k].op = "createReview" /\ reqs[k].pc = "findOne"
    /\ UNCHANGED <<reviews, books, users, res, ops>>
    /\ IF FindOne(reviews, reqs[k].by, reqs[k].book) # {}
       THEN reqs' = [reqs EXCEPT ![k] = Done(reqs[k], 400, "DuplicateReview")]
       ELSE reqs' = [reqs EXCEPT ![k].pc = "hookFind"]

\* the position after the pre-save hook: the insert of a new row, the update
\* of a stored one
AfterHook(req) == IF req.op = "createReview" THEN "insert" ELSE "write"

\* review.save(), pre-save hook: 'await Book.findById(this.book)'
HookFind(k) ==
    /\ UNCHANGED slice
    /\ k \in DOMAIN reqs
    /\ reqs[k].pc = "hookFind"
    /\ UNCHANGED <<reviews, books, users, res, ops>>
    /\ IF reqs[k].book \in DOMAIN books
       THEN reqs' = [reqs EXCEPT ![k].pc = "hookAgg",
                                 ![k].hdoc = books[reqs[k].book],
                                 ![k].hloaded = books[reqs[k].book]]
       ELSE reqs' = [reqs EXCEPT ![k].pc = AfterHook(reqs[k])]

\* pre-save hook: the aggregate query of updateAverageRating and its assignments
HookAgg(k) ==
    /\ UNCHANGED slice
    /\ k \in DOMAIN reqs
    /\ reqs[k].pc = "hookAgg"
    /\ UNCHANGED <<reviews, books, users, res, ops>>
    /\ reqs' = [reqs EXCEPT ![k].pc = "hookSave",
                            ![k].hdoc = updateAverageRating(reviews, @, reqs[k].book)]

\* pre-save hook: 'await this.save()' of updateAverageRating
HookSave(k) ==
    /\ UNCHANGED slice
    /\ k \in DOMAIN reqs
    /\ reqs[k].pc = "hookSave"
    /\ UNCHANGED <<reviews, users, res, ops>>
    /\ books' = SaveBook(books, reqs[k].book, reqs[k].hdoc, reqs[k].hloaded)
    /\ reqs' = [reqs EXCEPT ![k].pc = AfterHook(reqs[k])]

\* review.save(): the insert, rejected by the unique index when the pair is
\* stored already; the rejection is caught by the route's catch block
CrInsert(k) ==
    /\ UNCHANGED slice
    /\ k \in DOMAIN reqs
    /\ reqs[k].op = "createReview" /\ reqs[k].pc = "insert"
    /\ UNCHANGED <<books, users, res, ops>>
    /\ IF UniqueIndexAllows(reviews, reqs[k].doc)
       THEN /\ reviews' = Append(reviews, reqs[k].doc)
            /\ reqs' = [reqs EXCEPT ![k].pc = "agg", ![k].review = Len(reviews) + 1]
       ELSE /\ reqs' = [reqs EXCEPT ![k] = Done(reqs[k], 500, "ServerError")]
            /\ UNCHANGED reviews

\* book.updateAverageRating(): the aggregate query and its assignments
Agg(k) ==
    /\ UNCHANGED slice
    /\ k \in DOMAIN reqs
    /\ reqs[k].pc = "agg"
    /\ UNCHANGED <<reviews, books, users, res, ops>>
    /\ reqs' = [reqs EXCEPT ![k].pc = "saveBook",
                            ![k].bdoc = updateAverageRating(reviews, @, reqs[k].book)]

\* book.updateAverageRating(): 'await this.save()'; the update route answers
\* after it (its populate calls write nothing)
AggSave(k) ==
    /\ UNCHANGED slice
    /\ k \in DOMAIN reqs
    /\ reqs[k].pc = "saveBook"
    /\ UNCHANGED <<reviews, users, res, ops>>
    /\ books' = SaveBook(books, reqs[k].book, reqs[k].bdoc, reqs[k].bloaded)
    /\ reqs' = IF reqs[k].op = "updateReview"
               THEN [reqs EXCEPT ![k] = Done(reqs[k], 200, "")]
               ELSE [reqs EXCEPT ![k].pc = "incUser"]

\* 'await User.findByIdAndUpdate(id, { $inc: { reviewsCount: 1 } })' of the
\* requester in the create route, '$inc: -1' of the author in the delete route
IncUser(k) ==
    /\ UNCHANGED slice
    /\ k \in DOMAIN reqs
    /\ reqs[k].pc = "incUser"
    /\ UNCHANGED <<reviews, books, res, ops>>
    /\ users' = IF reqs[k].op = "createReview"
                THEN IncReviewsCount(users, reqs[k].by, 1)
                ELSE IncReviewsCount(users, reqs[k].doc.user, -1)
    /\ reqs' = [reqs EXCEPT ![k].pc = "respond"]

\* the populate calls and the success response
Respond(k) ==
    /\ UNCHANGED slice
    /\ k \in DOMAIN reqs
    /\ reqs[k].pc = "respond"
    /\ UNCHANGED <<reviews, books, users, res, ops>>
    /\ reqs' = [reqs EXCEPT ![k] =
                  Done(reqs[k], IF reqs[k].op = "createReview" THEN 201 ELSE 200, "")]

NextConcCreate ==
    \/ \E u \in Users, b \in RequestBookIds, r \in RatingInputs, t \in TitleInputs :
          CrStart(u, b, r, t)
    \/ \E k \in 1..MaxCreates :
          \/ CrFindOne(k)
          \/ HookFind(k)
          \/ HookAgg(k)
          \/ HookSave(k)
          \/ CrInsert(k)
          \/ Agg(k)
          \/ AggSave(k)
          \/ IncUser(k)
          \/ Respond(k)

SpecConcCreate == Init /\ [][NextConcCreate]_vars

(* ------------- interleaved requests: PUT / DELETE /api/reviews/:id ------ *)
\* PUT /api/reviews/:id up to the pre-save hook of 'await review.save()':
\* findById, the 404 and ownership checks, the allowedFields loop, validation
UpFind(u, i, body) ==
    /\ UNCHANGED slice
    /\ UNCHANGED <<reviews, books, users, res, ops>>
    /\ LET req == [NewReq("updateReview", u, 0, i) EXCEPT !.body = body]
       IN IF ReviewMissing(reviews, i)
          THEN reqs' = Append(reqs, Done(req, 404, "NotFound"))
          ELSE IF ~Owns(u, reviews[i])
          THEN reqs' = Append(reqs, Done(req, 403, "Forbidden"))
          ELSE LET review == ApplyBody(reviews[i], body)
                   held == [req EXCEPT !.book = review.book, !.doc = review,
                                       !.loaded = reviews[i]]
               IN IF ~ValidReview(review)
                  THEN reqs' = Append(reqs, Done(held, 500, "ServerError"))
                  ELSE reqs' = Append(reqs,
                           [held EXCEPT !.pc = IF review.rating # reviews[i].rating
                                               THEN "hookFind" ELSE "write"])

\* DELETE /api/reviews/:id up to 'await review.save()': findById, the 404 and
\* ownership checks, isActive = false
DlFind(u, i) ==
    /\ UNCHANGED slice
    /\ UNCHANGED <<reviews, books, users, res, ops>>
    /\ LET req == NewReq("deleteReview", u, 0, i)
       IN IF ReviewMissing(reviews, i)
          THEN reqs' = Append(reqs, Done(req, 404, "NotFound"))
          ELSE IF ~Owns(u, reviews[i])
          THEN reqs' = Append(reqs, Done(req, 403, "Forbidden"))
          ELSE reqs' = Append(reqs,
                   [req EXCEPT !.pc = "write", !.book = reviews[i].book,
                               !.loaded = reviews[i],
                               !.doc = [reviews[i] EXCEPT !.isActive = FALSE]])

\* mutant of SaveReview: the whole in-memory document is written back
SaveReview_WholeDocument(rv, i, doc, loaded) == [rv EXCEPT ![i] = doc]

\* review.save() of a stored review: $set of the paths whose in-memory value
\* differs from the loaded one
SaveReview(rv, i, doc, loaded) ==
    [rv EXCEPT ![i] = [f \in DOMAIN rv[i] |->
                          IF doc[f] # loaded[f] THEN doc[f] ELSE rv[i][f]]]

\* the store's execution of review.save() in the update and delete routes
Write(k) ==
    /\ UNCHANGED slice
    /\ k \in DOMAIN reqs
    /\ reqs[k].pc = "write"
    /\ UNCHANGED <<books, users, res, ops>>
    /\ reviews' = SaveReview(reviews, reqs[k].review, reqs[k].doc, reqs[k].loaded)
    /\ reqs' = IF reqs[k].op = "deleteReview" \/ "rating" \in DOMAIN reqs[k].body
               THEN [reqs EXCEPT ![k].pc = "bookFind"]
               ELSE [reqs EXCEPT ![k] = Done(reqs[k], 200, "")]

\* 'await Book.findById(review.book)' after the review was saved
BookFind(k) ==
    /\ UNCHANGED slice
    /\ k \in DOMAIN reqs
    /\ reqs[k].pc = "bookFind"
    /\ UNCHANGED <<reviews, books, users, res, ops>>
    /\ reqs' = [reqs EXCEPT ![k].pc = "agg",
                            ![k].bdoc = books[reqs[k].book],
                            ![k].bloaded = books[reqs[k].book]]

(* --------------- interleaved requests: every review route -------------- *)
\* a body of PUT /api/reviews/:id that names, next to a title, every path
\* outside allowedFields that identifies or scores the review
ForgedBody ==
    [title |-> "t2", isActive |-> FALSE, user |-> 2, book |-> 2,
     helpful |-> [count |-> 5, users |-> <<2>>],
     likes |-> [count |-> 5, users |-> <<2>>]]

\* ratings and update bodies of the interleaved requests: a valid rating; a
\* body that changes the rating, and one with a title and a path outside
\* allowedFields
ConcRatings == {50}
ConcBodies == {[rating |-> 50], ForgedBody}

\* the requesters of the interleaved requests: the administrator, who is the
\* author of review 1, and one account with role 'user'
Requesters == {1, 2}

NextConc ==
    \/ \E u \in Requesters, b \in DOMAIN books, r \in ConcRatings, t \in TitleInputs :
          Len(reqs) < MaxInFlight /\ CrStart(u, b, r, t)
    \/ \E u \in Requesters, i \in DOMAIN reviews, body \in ConcBodies :
          Len(reqs) < MaxInFlight /\ UpFind(u, i, body)
    \/ \E u \in Requesters, i \in DOMAIN reviews :
          Len(reqs) < MaxInFlight /\ DlFind(u, i)
    \/ \E u \in Requesters, i \in DOMAIN reviews, kind \in {"helpful", "likes"} :
          Len(reqs) < MaxInFlight /\ TgFind(u, i, kind)
    \/ \E k \in 1..MaxInFlight :
          \/ CrFindOne(k)
          \/ HookFind(k)
          \/ HookAgg(k)
          \/ HookSave(k)
          \/ CrInsert(k)
          \/ Write(k)
          \/ BookFind(k)
          \/ Agg(k)
          \/ AggSave(k)
          \/ IncUser(k)
          \/ Respond(k)
          \/ TgSave(k)

\* a store in which user 1 has reviewed book 1, the review active or soft-deleted
InitConc ==
    /\ slice = initialState
    /\ \E act \in BOOLEAN :
          /\ reviews = <<[NewReview(1, 1, 40, "t1") EXCEPT !.isActive = act]>>
          /\ users = [u \in Users |->
                        [reviewsCount |-> IF u = 1 /\ act THEN 1 ELSE 0]]
    /\ books = Recompute(reviews, [b \in BookIds |-> NewBook], 1)
    /\ res = Response("none", 0, 0, 0, 0, "")
    /\ reqs = <<>>
    /\ ops = 0

SpecConc == InitConc /\ [][NextConc]_vars

(* ------------------- front end: the reviews slice --------------------- *)
\* the async thunks whose pending / fulfilled / rejected reducers write
\* state.isLoading
Thunks == {"fetchReviews", "fetchReview", "createReview", "updateReview", "deleteReview"}

\* the review id a thunk is dispatched with or answered with, and the lists
\* GET /api/reviews answers with
ThunkIds == {1}
ListPayloads == {<<>>, <<1>>}

\* state.reviews.filter(review => review._id !== id)
FilterOut(list, id) == SelectSeq(list, LAMBDA x : x # id)

\* dispatch of a thunk: the request leaves and the pending reducer runs
ThunkPending(thunk, id) ==
    /\ Len(reqs) < MaxThunks
    /\ UNCHANGED <<reviews, books, users, res, ops>>
    /\ reqs' = Append(reqs, [op |-> thunk, review |-> id, pc |-> "pending"])
    /\ slice' = [slice EXCEPT !.isLoading = TRUE, !.error = ""]

\* the answer to pending thunk k arrives and its fulfilled reducer runs;
\* list is the payload of fetchReviews
ThunkFulfilled(k, list) ==
    /\ k \in DOMAIN reqs
    /\ reqs[k].pc = "pending"
    /\ UNCHANGED <<reviews, books, users, res, ops>>
    /\ reqs' = [reqs EXCEPT ![k].pc = "fulfilled"]
    /\ LET id == reqs[k].review
           loaded == [slice EXCEPT !.isLoading = FALSE, !.error = ""]
       IN slice' =
            CASE reqs[k].op = "fetchReviews" -> [loaded EXCEPT !.reviews = list]
              [] reqs[k].op = "fetchReview" -> [loaded EXCEPT !.currentReview = id]
              [] reqs[k].op = "createReview" -> [loaded EXCEPT !.reviews = <<id>> \o @]
              [] reqs[k].op = "updateReview" -> loaded
              [] reqs[k].op = "deleteReview" ->
                    [loaded EXCEPT !.reviews = FilterOut(@, id),
                                   !.currentReview = IF @ = id THEN 0 ELSE @]

\* pending thunk k fails and its rejected reducer runs
ThunkRejected(k) ==
    /\ k \in DOMAIN reqs
    /\ reqs[k].pc = "pending"
    /\ UNCHANGED <<reviews, books, users, res, ops>>
    /\ reqs' = [reqs EXCEPT ![k].pc = "rejected"]
    /\ slice' = [slice EXCEPT !.isLoading = FALSE, !.error = "Failed"]

NextSlice ==
    \/ \E thunk \in Thunks, id \in ThunkIds : ThunkPending(thunk, id)
    \/ \E k \in 1..MaxThunks, list \in ListPayloads : ThunkFulfilled(k, list)
    \/ \E k \in 1..MaxThunks : ThunkRejected(k)

SpecSlice == Init /\ [][NextSlice]_vars

(* ------------------------------ properties ---------------------------- *)
\* the active reviews of book b
ActiveOf(rv, b) == {i \in DOMAIN rv : rv[i].book = b /\ rv[i].isActive}

\* the active reviews written by user u
ActiveBy(rv, u) == {i \in DOMAIN rv : rv[i].user = u /\ rv[i].isActive}

\* the stored reviews of user u for book b, active or not
RowsOfPair(rv, u, b) == {i \in DOMAIN rv : rv[i].user = u /\ rv[i].book = b}

Kinds == {"helpful", "likes"}

\* C1: after any sequence of review create / update / delete requests, every
\* book's totalRatings is the number of its active reviews and its
\* averageRating is their mean rounded to one decimal, or 0 when it has none.
C1_DerivedMatchActive ==
    \A b \in DOMAIN books :
        LET a == ActiveOf(reviews, b)
        IN /\ books[b].totalRatings = Cardinality(a)
           /\ books[b].averageRating =
                 IF a = {} THEN 0 ELSE Round1(SumRatings(reviews, a), Cardinality(a))

\* C2: after every toggle of a sequence of non-overlapping toggle requests,
\* the stored count of each kind equals the length of its stored users list.
C2_CountIsListSize ==
    \A i \in DOMAIN reviews : \A kind \in Kinds :
        reviews[i][kind].count = Len(reviews[i][kind].users)

\* a removal was the last toggle and one of two voters is left
C2_Witness ==
    /\ res.op = "markHelpful" /\ res.status = 200 /\ ~res.flag
    /\ res.review \in DOMAIN reviews
    /\ reviews[res.review].helpful.count = 1
    /\ Len(reviews[res.review].helpful.users) = 1

\* the toggle requests on one review and kind come from pairwise distinct users
DistinctTogglers ==
    \A k1, k2 \in DOMAIN reqs :
        (k1 # k2 /\ reqs[k1].review = reqs[k2].review /\ reqs[k1].kind = reqs[k2].kind)
            => reqs[k1].by # reqs[k2].by

\* C3: when toggle requests of one kind by distinct users on one review
\* interleave, the stored count equals the size of the stored users list in
\* every state.
C3_CountIsListSizeInterleaved ==
    DistinctTogglers =>
        \A i \in DOMAIN reviews : \A kind \in Kinds :
            reviews[i][kind].count = Len(reviews[i][kind].users)

\* C4: when two different users, both absent from a voter list, toggle the
\* same kind on the same review concurrently and both requests have completed,
\* both users are in the list and the count is 2 higher than before (it was 0).
C4_NoLostUpdate ==
    \A k1, k2 \in DOMAIN reqs :
        (/\ k1 # k2
         /\ reqs[k1].pc = "done" /\ reqs[k2].pc = "done"
         /\ reqs[k1].status = 200 /\ reqs[k2].status = 200
         /\ reqs[k1].review = reqs[k2].review /\ reqs[k1].kind = reqs[k2].kind
         /\ reqs[k1].by # reqs[k2].by
         /\ \A k3 \in DOMAIN reqs \ {k1, k2} :
               ~(reqs[k3].review = reqs[k1].review /\ reqs[k3].kind = reqs[k1].kind))
        => LET row == reviews[reqs[k1].review][reqs[k1].kind]
           IN /\ \E j \in DOMAIN row.users : row.users[j] = reqs[k1].by
              /\ \E j \in DOMAIN row.users : row.users[j] = reqs[k2].by
              /\ row.count = 2

\* C5 as stated: a createReview for a pair that already has a review, active
\* or soft-deleted, is answered 400, creates no row and leaves the book's
\* derived fields and the user's reviewsCount unchanged.
C5_DuplicateAlways400 ==
    [][(res'.op = "createReview" /\ RowsOfPair(reviews, res'.by, res'.book) # {})
         => (/\ res'.status = 400
             /\ reviews' = reviews /\ books' = books /\ users' = users)]_vars

\* C5 amended: such a request writes nothing; it is answered with the
\* duplicate-review error (400) when the body is valid and the book is active,
\* and with BookNotFound (404) when the body is valid and the book is inactive.
C5_DuplicateRejected ==
    [][(res'.op = "createReview" /\ RowsOfPair(reviews, res'.by, res'.book) # {})
         => (/\ reviews' = reviews /\ books' = books /\ users' = users
             /\ \/ res'.status = 400 /\ res'.msg = "ValidationFailed"
                \/ /\ books[res'.book].isActive
                   /\ res'.status = 400 /\ res'.msg = "DuplicateReview"
                \/ /\ ~books[res'.book].isActive
                   /\ res'.status = 404 /\ res'.msg = "BookNotFound")]_vars

\* a duplicate of a soft-deleted review was rejected with the duplicate error
C5_Witness ==
    /\ res.op = "createReview" /\ res.status = 400 /\ res.msg = "DuplicateReview"
    /\ \E i \in RowsOfPair(reviews, res.by, res.book) : ~reviews[i].isActive
    /\ Cardinality(RowsOfPair(reviews, res.by, res.book)) = 1

\* C6: after two racing createReview requests for one pair, at most one row of
\* the pair exists, and a request that found the book, passed the checks and
\* inserted nothing is answered with the duplicate-review error (400).
C6_RaceLoserGetsDuplicate ==
    /\ \A u \in Users : \A b \in DOMAIN books : Cardinality(RowsOfPair(reviews, u, b)) <= 1
    /\ \A k \in DOMAIN reqs :
          (/\ reqs[k].op = "createReview" /\ reqs[k].pc = "done"
           /\ reqs[k].review = 0
           /\ reqs[k].msg \notin {"ValidationFailed", "BookNotFound"})
          => (reqs[k].status = 400 /\ reqs[k].msg = "DuplicateReview")

\* C7: update / delete of an active review by a requester who is neither its
\* author nor an administrator is answered 403 and changes no review, book or
\* user; the author and an administrator are never answered 403.
C7_ForbiddenChangesNothing ==
    [][(res'.op \in {"updateReview", "deleteReview"})
         => LET i == res'.review
                u == res'.by
            IN /\ (i \in DOMAIN reviews /\ reviews[i].isActive
                     /\ reviews[i].user # u /\ Role(u) # "admin")
                    => (/\ res'.status = 403
                        /\ reviews' = reviews /\ books' = books /\ users' = users)
               /\ (i \in DOMAIN reviews /\ (reviews[i].user = u \/ Role(u) = "admin"))
                    => res'.status # 403
               /\ Role(u) = "admin" => res'.status # 403]_vars

\* a non-author, non-administrator was refused on an active review
C7_Witness ==
    /\ res.op = "deleteReview" /\ res.status = 403
    /\ res.review \in DOMAIN reviews
    /\ reviews[res.review].isActive
    /\ reviews[res.review].user # res.by

\* C8: every user's reviewsCount is the number of that user's active reviews;
\* a successful create adds exactly 1 to the author's count, a successful
\* delete subtracts exactly 1 from the author's count, whoever the requester is.
C8_ReviewsCountTracksAuthor ==
    [][/\ \A u \in Users : users'[u].reviewsCount = Cardinality(ActiveBy(reviews', u))
       /\ (res'.op = "createReview" /\ res'.status = 201)
            => users' = [users EXCEPT ![res'.by].reviewsCount = @ + 1]
       /\ (res'.op = "deleteReview" /\ res'.status = 200)
            => users' = [users EXCEPT ![reviews[res'.review].user].reviewsCount = @ - 1]
      ]_vars

\* an administrator deleted another user's review
C8_Witness ==
    /\ res.op = "deleteReview" /\ res.status = 200
    /\ reviews[res.review].user # res.by
    /\ users[reviews[res.review].user].reviewsCount = 0
    /\ users[res.by].reviewsCount = 1

\* C9: once a delete has left a book without active reviews, the book's
\* stored averageRating is 0 and its totalRatings is 0.
C9_NoActiveReviewMeansZero ==
    (res.op = "deleteReview" /\ res.status = 200 /\ ActiveOf(reviews, res.book) = {})
        => (books[res.book].averageRating = 0 /\ books[res.book].totalRatings = 0)

\* C10: the stored averageRating / totalRatings of a book change only in a
\* request that runs the aggregator (review create, update, delete).
C10_OnlyAggregatorWrites ==
    [][(\E b \in DOMAIN books :
           \/ books'[b].averageRating # books[b].averageRating
           \/ books'[b].totalRatings # books[b].totalRatings)
         => res'.op \in {"createReview", "updateReview", "deleteReview"}]_vars

ToggleOps == {"markHelpful", "toggleLike"}

\* the users of a voter list
VotersOf(list) == {list[k] : k \in DOMAIN list}

\* C11 as stated: after the same toggle by the same user on the same review was
\* served twice in succession, the stored count and the stored users list of
\* that kind are exactly what they were before the first of the two calls.
C11_TwiceRestoresList ==
    (res.op \in ToggleOps /\ res.status = 200 /\ res.pre2 # NoVotes)
        => LET row == reviews[res.review][IF res.op = "markHelpful" THEN "helpful" ELSE "likes"]
           IN row.count = res.pre2.count /\ row.users = res.pre2.users

\* C11 amended: after two such calls the stored count is what it was before the
\* first call and the stored list holds the same users as before, each once;
\* the order of the list may differ.
C11_TwiceRestoresVoters ==
    (res.op \in ToggleOps /\ res.status = 200 /\ res.pre2 # NoVotes)
        => LET row == reviews[res.review][IF res.op = "markHelpful" THEN "helpful" ELSE "likes"]
           IN /\ row.count = res.pre2.count
              /\ VotersOf(row.users) = VotersOf(res.pre2.users)
              /\ Len(row.users) = Len(res.pre2.users)

\* user 1, first of two voters, toggled twice and is now the last voter
C11_Witness ==
    /\ res.op = "markHelpful" /\ res.status = 200 /\ res.by = 1
    /\ res.pre2 = [count |-> 2, users |-> <<1, 2>>]
    /\ reviews[res.review].helpful = [count |-> 2, users |-> <<2, 1>>]

\* C12: a toggle served on an active review adds the user and 1 to the count
\* when the user was absent, removes the user and 1 from the count when the
\* user was present; the response carries the stored count and a flag that is
\* true exactly when the user is in the stored list afterwards.
C12_ToggleAddsOrRemoves ==
    [][(res'.op \in ToggleOps /\ res'.status = 200)
         => LET i == res'.review
                u == res'.by
                kind == IF res'.op = "markHelpful" THEN "helpful" ELSE "likes"
                before == reviews[i][kind]
                after == reviews'[i][kind]
            IN /\ IF u \notin VotersOf(before.users)
                  THEN /\ after.users = Append(before.users, u)
                       /\ after.count = before.count + 1
                  ELSE /\ VotersOf(after.users) = VotersOf(before.users) \ {u}
                       /\ Len(after.users) = Len(before.users) - 1
                       /\ after.count = before.count - 1
               /\ res'.count = after.count
               /\ res'.flag = (u \in VotersOf(after.users))]_vars

\* the only liker withdrew the like: count 0 and flag false are reported
C12_Witness ==
    /\ res.op = "toggleLike" /\ res.status = 200
    /\ res.pre.count = 1 /\ res.count = 0 /\ ~res.flag
    /\ reviews[res.review].likes.users = <<>>

\* C17: a toggle on a review id that is missing or soft-deleted is answered
\* 404 and changes no review, book or user; a toggle on an active review is
\* never answered 404, whoever the requester is.
C17_ToggleNotFound ==
    [][(res'.op \in ToggleOps)
         => IF res'.review \notin DOMAIN reviews \/ ~reviews[res'.review].isActive
            THEN /\ res'.status = 404 /\ res'.msg = "NotFound"
                 /\ reviews' = reviews /\ books' = books /\ users' = users
            ELSE res'.status # 404]_vars

\* a toggle on a soft-deleted review was refused
C17_Witness ==
    /\ res.op = "markHelpful" /\ res.status = 404
    /\ res.review \in DOMAIN reviews
    /\ ~reviews[res.review].isActive

LifecycleOps == {"createReview", "updateReview", "deleteReview"}

\* C13: when the store refuses the aggregator's save in the route of a review
\* create, update with a rating, or delete, that is after the review row was
\* written, the request is not answered 200 or 201.
C13_AggregationFailureReported ==
    [][(res'.op \in LifecycleOps /\ res'.fault = "route")
         => res'.status \notin {200, 201}]_vars

\* an update stored its new rating, the aggregator's save was refused, the
\* request was answered 500
C13_Witness ==
    /\ res.op = "updateReview" /\ res.fault = "route" /\ res.status = 500
    /\ reviews[res.review].rating = res.body.rating

\* C14: no request removes a review row or changes its user or book, and a
\* review that is inactive stays inactive.
C14_InactiveIsTerminal ==
    [][\A i \in DOMAIN reviews :
          /\ i \in DOMAIN reviews'
          /\ reviews'[i].user = reviews[i].user
          /\ reviews'[i].book = reviews[i].book
          /\ ~reviews[i].isActive => ~reviews'[i].isActive]_vars

\* a delete was answered 200 and the review is inactive, while an update that
\* loaded the review when it was active has stored its rating
C14_Witness ==
    \E k1, k2 \in DOMAIN reqs :
        /\ reqs[k1].op = "deleteReview" /\ reqs[k1].pc = "done" /\ reqs[k1].status = 200
        /\ reqs[k2].op = "updateReview" /\ reqs[k2].pc = "bookFind"
        /\ reqs[k2].review = reqs[k1].review
        /\ reqs[k2].loaded.isActive
        /\ ~reviews[reqs[k2].review].isActive
        /\ reviews[reqs[k2].review].rating = 50

C16_MutateNotFound ==
    [][(/\ res'.op \in {"updateReview", "deleteReview"}
        /\ (res'.review \notin DOMAIN reviews \/ ~reviews[res'.review].isActive))
         => (/\ res'.status = 404 /\ res'.msg = "NotFound"
             /\ reviews' = reviews /\ books' = books /\ users' = users)]_vars

\* a second delete of a review was refused and its author's count is still 0
C16_Witness ==
    /\ res.op = "deleteReview" /\ res.status = 404
    /\ res.review \in DOMAIN reviews
    /\ ~reviews[res.review].isActive
    /\ users[reviews[res.review].user].reviewsCount = 0

\* C18: no read endpoint returns a soft-deleted review: the lists of
\* GET /api/reviews, /api/reviews/user/:userId, /api/users/:id/reviews and
\* /api/books/:id/reviews, the review of GET /api/reviews/:id, and the fields
\* recentReviews and userReview of GET /api/books/:id.
C18_ReadsReturnActiveOnly ==
    LET Active(S) == \A i \in S : reviews[i].isActive
    IN /\ Active(GetReviews(reviews))
       /\ \A i \in ReviewIds : Active(GetReviewById(reviews, i))
       /\ \A u \in Users : Active(GetUserReviews(reviews, u))
       /\ \A b \in RequestBookIds :
             /\ Active(GetBookReviews(reviews, books, b))
             /\ Active(recentReviews(reviews, books, b))
             /\ \A u \in Users : Active(userReview(reviews, books, u, b))

\* C19: a successful update sets every allowed field present in the body to
\* the body's value and leaves every other field of the review, and every
\* other review, as stored before.
C19_UpdateExactlyBodyFields ==
    [][(res'.op = "updateReview" /\ res'.status = 200)
         => LET i == res'.review
                body == res'.body
            IN /\ \A f \in DOMAIN reviews[i] :
                     reviews'[i][f] =
                        IF f \in allowedFields /\ f \in DOMAIN body
                        THEN body[f] ELSE reviews[i][f]
               /\ \A j \in DOMAIN reviews \ {i} : reviews'[j] = reviews[j]]_vars

\* an update with a title and a path outside allowedFields changed the title
\* only: the rating is the created one, the review is still active
C19_Witness ==
    /\ res.op = "updateReview" /\ res.status = 200
    /\ res.body = [title |-> "t2", isActive |-> FALSE]
    /\ reviews[res.review].title = "t2"
    /\ reviews[res.review].rating = 20
    /\ reviews[res.review].isActive

\* C20: every stored rating is an integer in [1,5] and every stored
\* averageRating is in [0,5]; a create or update whose rating is outside [1,5]
\* is answered with an error and changes no review, book or user.
C20_RatingsIntegral ==
    [][/\ \A i \in DOMAIN reviews' : reviews'[i].rating \in {10, 20, 30, 40, 50}
       /\ \A b \in DOMAIN books' :
             books'[b].averageRating >= 0 /\ books'[b].averageRating <= 50
       /\ (/\ res'.op \in {"createReview", "updateReview"}
           /\ "rating" \in DOMAIN res'.body
           /\ (res'.body.rating < 10 \/ res'.body.rating > 50))
            => (/\ res'.status >= 400
                /\ reviews' = reviews /\ books' = books /\ users' = users)]_vars

\* the derived fields of book b are the aggregate of its active reviews
DerivedMatch(rv, bk, b) ==
    LET a == ActiveOf(rv, b)
    IN /\ bk[b].totalRatings = Cardinality(a)
       /\ bk[b].averageRating =
             IF a = {} THEN 0 ELSE Round1(SumRatings(rv, a), Cardinality(a))

\* C21: once all of several interleaved review mutations on a book have been
\* answered, the book's stored totalRatings and averageRating are the values
\* computed from the final set of its reviews.
C21_FinalDerivedMatch ==
    (Len(reqs) >= 2 /\ \A k \in DOMAIN reqs : reqs[k].pc = "done")
        => \A b \in DOMAIN books : DerivedMatch(reviews, books, b)

\* C22: every user's reviewsCount is at least 0 in every state, also while
\* requests interleave.
C22_ReviewsCountNonNegative ==
    \A u \in Users : users[u].reviewsCount >= 0

\* C23: each user occurs at most once in a review's helpful.users list and at
\* most once in its likes.users list, also after interleaved toggles of one
\* kind by one user.
C23_OneVotePerUser ==
    \A i \in DOMAIN reviews : \A kind \in Kinds :
        \A j1, j2 \in DOMAIN reviews[i][kind].users :
            reviews[i][kind].users[j1] = reviews[i][kind].users[j2] => j1 = j2

\* the request answered in the next state repeats the request answered in this
\* one: the same create (requester, book, body) or the same delete (requester,
\* review)
Retried ==
    /\ res'.op = res.op /\ res'.by = res.by
    /\ \/ res.op = "createReview" /\ res'.book = res.book /\ res'.body = res.body
       \/ res.op = "deleteReview" /\ res'.review = res.review

\* C24: when a create or delete failed after its review write because the
\* aggregation write was refused (the reviewsCount update was then skipped),
\* and the same request is retried and answered, the book's derived fields
\* match its active reviews and every reviewsCount is the user's number of
\* active reviews.
C24_RetryRestoresInvariants ==
    [][(/\ res.op \in {"createReview", "deleteReview"}
        /\ res.fault = "route" /\ res.status = 500
        /\ Retried /\ res'.fault = "none")
         => (/\ DerivedMatch(reviews', books', res.book)
             /\ \A u \in Users :
                   users'[u].reviewsCount = Cardinality(ActiveBy(reviews', u)))]_vars

\* the derived fields of book b are what the aggregate query yields on rv
AggregateOf(rv, bk, b) ==
    LET m == Matched(rv, b)
    IN /\ bk[b].totalRatings = Cardinality(m)
       /\ bk[b].averageRating =
             IF m = {} THEN 0 ELSE Round1(SumRatings(rv, m), Cardinality(m))

\* C25: a create or delete answered with success has written the review and
\* updated the author's reviewsCount, and when it wrote the book's derived
\* fields, the values it left are those of the aggregate query on the reviews
\* as they are after the review write.
C25_LastBookWriteIsPostWrite ==
    [][(res'.op \in {"createReview", "deleteReview"} /\ res'.status \in {200, 201})
         => LET b == res'.book
            IN /\ reviews' # reviews
               /\ users' # users
               /\ (\/ books'[b].averageRating # books[b].averageRating
                   \/ books'[b].totalRatings # books[b].totalRatings)
                    => AggregateOf(reviews', books', b)]_vars

\* C26: when updateAverageRating has stored the aggregate of a non-empty set
\* of n integer ratings with sum s, the stored average in tenths is
\* floor((20 * s + n) / (2 * n)), the mean rounded to one decimal with halves
\* rounded up, and the stored totalRatings is n.
C26_RoundHalfUp ==
    (res.op = "recomputeRating" /\ Matched(reviews, res.book) # {})
        => LET m == Matched(reviews, res.book)
               n == Cardinality(m)
               s == SumRatings(reviews, m) \div 10
           IN /\ books[res.book].averageRating = (20 * s + n) \div (2 * n)
              /\ books[res.book].totalRatings = n

\* ratings 1, 1, 1, 2 were aggregated: mean 1.25, stored 1.3
C26_Witness ==
    /\ res.op = "recomputeRating"
    /\ Len(reviews) = 4
    /\ SumRatings(reviews, DOMAIN reviews) = 50
    /\ books[res.book].averageRating = 13
    /\ books[res.book].totalRatings = 4

\* C27: a review's user and book never change; its isActive flag changes only
\* to false and only in the save of a deleteReview request for it; its helpful
\* (likes) count and voter list change only in the save of a markHelpful
\* (toggleLike) request for it, which leaves the other kind as stored. An
\* updateReview whose body names these paths leaves all of them as stored.
C27_ProtectedPaths ==
    [][\A i \in DOMAIN reviews :
         /\ reviews'[i].user = reviews[i].user
         /\ reviews'[i].book = reviews[i].book
         /\ reviews'[i].isActive # reviews[i].isActive
              => /\ ~reviews'[i].isActive
                 /\ \E k \in DOMAIN reqs :
                       /\ reqs[k].op = "deleteReview" /\ reqs[k].review = i
                       /\ reqs[k].pc = "write" /\ reqs'[k].pc # "write"
         /\ \A kind \in Kinds :
               reviews'[i][kind] # reviews[i][kind]
                 => /\ \E k \in DOMAIN reqs :
                          /\ reqs[k].op = ToggleOp(kind) /\ reqs[k].review = i
                          /\ reqs[k].pc = "save" /\ reqs'[k].pc = "done"
                    /\ \A other \in Kinds \ {kind} :
                          reviews'[i][other] = reviews[i][other]]_vars

\* an update whose body named every protected path was answered 200: the
\* title is the body's, the protected paths are the ones stored at creation
C27_Witness ==
    \E k \in DOMAIN reqs :
        /\ reqs[k].op = "updateReview" /\ reqs[k].pc = "done"
        /\ reqs[k].status = 200 /\ reqs[k].body = ForgedBody
        /\ LET review == reviews[reqs[k].review]
           IN /\ review.title = "t2"
              /\ review.isActive
              /\ review.user = 1 /\ review.book = 1
              /\ review.helpful.count = 0 /\ review.likes.count = 0

\* C28: DELETE /api/books/:id removes no book, changes no review and no
\* user, and changes no book's averageRating or totalRatings; answered 200 it
\* leaves the named book inactive and every other field of every book as
\* stored.
C28_DeleteBookOnlyDeactivates ==
    [][res'.op = "deleteBook"
         => /\ DOMAIN books' = DOMAIN books
            /\ reviews' = reviews
            /\ users' = users
            /\ \A b \in DOMAIN books :
                  /\ books'[b].averageRating = books[b].averageRating
                  /\ books'[b].totalRatings = books[b].totalRatings
                  /\ \A f \in DOMAIN books[b] \ {"isActive"} :
                        books'[b][f] = books[b][f]
                  /\ books'[b].isActive # books[b].isActive
                        => b = res'.book /\ res'.status = 200
            /\ res'.status = 200 => ~books'[res'.book].isActive]_vars

\* a book with an active review was deleted: the book is still stored, now
\* inactive, with the review, the derived fields and the author's count intact
C28_Witness ==
    /\ res.op = "deleteBook" /\ res.status = 200
    /\ res.book \in DOMAIN books
    /\ ~books[res.book].isActive
    /\ books[res.book].totalRatings = 1
    /\ \E i \in DOMAIN reviews :
          /\ reviews[i].book = res.book /\ reviews[i].isActive
          /\ users[reviews[i].user].reviewsCount = 1

\* C29: markHelpful leaves the likes count and voter list of every review as
\* stored and toggleLike leaves the helpful ones; neither changes any
\* review's rating or isActive, any book's averageRating or totalRatings, or
\* any user's reviewsCount.
C29_TogglesIndependent ==
    [][res'.op \in {"markHelpful", "toggleLike"}
         => /\ \A i \in DOMAIN reviews :
                  /\ res'.op = "markHelpful" => reviews'[i].likes = reviews[i].likes
                  /\ res'.op = "toggleLike" => reviews'[i].helpful = reviews[i].helpful
                  /\ reviews'[i].rating = reviews[i].rating
                  /\ reviews'[i].isActive = reviews[i].isActive
            /\ DOMAIN reviews' = DOMAIN reviews
            /\ \A b \in DOMAIN books :
                  /\ books'[b].averageRating = books[b].averageRating
                  /\ books'[b].totalRatings = books[b].totalRatings
            /\ \A u \in Users : users'[u].reviewsCount = users[u].reviewsCount]_vars

\* a review that another user likes was marked helpful: the like is still
\* stored next to the new helpful vote
C29_Witness ==
    /\ res.op = "markHelpful" /\ res.status = 200 /\ res.flag
    /\ reviews[res.review].helpful.users = <<res.by>>
    /\ reviews[res.review].likes.count = 1
    /\ \E u \in Users \ {res.by} : reviews[res.review].likes.users = <<u>>

\* C30: state.isLoading of the reviews slice is true exactly while at least
\* one fetchReviews, fetchReview, createReview, updateReview or deleteReview
\* request is pending, however many are in flight and in whatever order they
\* complete.
C30_LoadingWhilePending ==
    slice.isLoading <=> \E k \in DOMAIN reqs : reqs[k].pc = "pending"

====
